---- MODULE Spec2Model ----
(***************************************************************************)
(* Model of the healing-trace front end of SelfHealingAgents:              *)
(*   - frontend/src/hooks/useEventStream.ts : the events list fed by the   *)
(*     server-sent event stream;                                           *)
(*   - frontend/src/App.tsx (second App, lines 273-702): the effect that   *)
(*     reads the last element of the events list, updateTraceFromEvent and *)
(*     updateTraceWithEvent, which fold events into the single activeTrace *)
(*     record.                                                             *)
(* Optional JavaScript values are modelled as follows: an absent string is *)
(* Undefined, an absent object is Undef, an absent number is 0 (every      *)
(* number the code reads through `x || 1` treats 0 and absent alike), and  *)
(* the null activeTrace is Null.  Template strings are tuples of their     *)
(* parts.  Findings of the claims are recorded next to their formulas.     *)
(***************************************************************************)
EXTENDS Integers, Sequences, FiniteSets, TLC

VARIABLES
    activeTrace,   \* App.tsx:282   useState<HealingTrace | null>(null)
    events,        \* useEventStream.ts:5   useState<Event[]>([])
    effectDue,     \* the effect of App.tsx:291-299 is scheduled (events changed)
    lastEvent,     \* history: the event last handed to updateTraceFromEvent
    prevTrace,     \* history: activeTrace before that event was processed
    applied,       \* history: the events handed to updateTraceFromEvent, in order
    observed,      \* history: per trace id and step name, the last status shown
    processed,     \* history: how many events updateTraceFromEvent was called with
    uiState,       \* App.tsx:283-288   useState<UIState>({...})
    lastRequest,   \* the last request a handler of the App sent with fetch
    url,           \* useEventStream.ts:4   the url argument of the hook
    hookState,     \* "initial", "mounted" (effect of lines 10-65 ran) or "unmounted"
    eventSources,  \* the EventSource objects created at line 13, in creation order
    eventSourceRef,\* useEventStream.ts:8   index of eventSourceRef.current, 0 for null
    timers,        \* pending setTimeout callbacks of line 43, in firing order
    isConnected,   \* useEventStream.ts:6   useState(false)
    error,         \* useEventStream.ts:7   useState<string | null>(null)
    failures,      \* history: how many error events the sources have fired
    urlChanges,    \* history: how many times the url argument changed
    missed,        \* history: events published while no connection was open
    lateTimers,    \* history: how many timers fired after the hook unmounted
    lastFault,     \* history: the last transport error and Len(events) at that time
    isTriggering,  \* part_003:10   useState(false), per TriggerButton
    inFlight,      \* per TriggerButton: onTrigger() calls that have not settled
    clicks,        \* history: per TriggerButton, how many times handleClick ran
    lastSettled    \* history: per TriggerButton, how the last call settled

appVars == <<activeTrace, events, effectDue, lastEvent, prevTrace, applied,
             observed, processed, uiState, lastRequest>>

connVars == <<url, hookState, eventSources, eventSourceRef, timers, isConnected,
              error, failures, urlChanges, missed, lateTimers>>

hookVars == <<connVars, lastFault>>

buttonVars == <<isTriggering, inFlight, clicks, lastSettled>>

vars == <<activeTrace, events, effectDue, lastEvent, prevTrace, applied,
          observed, processed, uiState, lastRequest,
          url, hookState, eventSources, eventSourceRef, timers, isConnected,
          error, failures, urlChanges, missed, lateTimers, lastFault,
          isTriggering, inFlight, clicks, lastSettled>>

-----------------------------------------------------------------------------
(* Bounds of the model *)

\* messages the stream delivers in one behaviour
MaxEvents == 3
\* calls of updateTraceFromEvent in one behaviour
MaxProcessed == 4
\* events without a trace id interleaved with the events of one healing run
MaxUnscoped == 1

\* Ceiling of the max_loc guardrail (spec section 4.2, "a configured ceiling");
\* the front end holds no such value.
MaxLocCeiling == 2

-----------------------------------------------------------------------------
(* Values *)

Undefined == "undefined"
Undef == [undefined |-> TRUE]
Null == [null |-> TRUE]
NoEvent == [none |-> TRUE]
NoRequest == [none |-> TRUE]

\* a transport error of the hook, logged with console.error
\* (useEventStream.ts:33, 38), and the length of the events list at that time
Fault(kind, at) == [kind |-> kind, at |-> at]
NoFault == Fault("none", 0)

TraceIds == {"a1b2c3d4-0001", "f6e5d4c3-0002"}

\* String.prototype.slice(0, 8) on the trace ids of the model
Slice08(s) ==
    CASE s = "a1b2c3d4-0001" -> "a1b2c3d4"
      [] s = "f6e5d4c3-0002" -> "f6e5d4c3"
      [] OTHER -> s

Timestamps == {"2025-01-01T00:00:00Z"}

StepNames == {"Failure Detected", "Root Cause Analysis", "Generating Patch",
              "Applying Patch", "Service Reloaded", "Verification"}

StatusValues == {"idle", "failing", "rca_ready", "applying", "reloaded",
                 "verifying", "healed", "rolled_back"}

Terminal == {"healed", "rolled_back"}

\* names of the fixed tests (App.tsx:483-484)
TestNames == {"policy_present", "eligibility_rule_clearance"}

\* messages of a failed completion that name the failed test
FailedTestMessages == {"policy_present failed"}

\* url arguments of useEventStream: the one of App.tsx:281 and another one
Urls == {"/api/events/stream", "/api/v2/events/stream"}

\* EventSource.readyState: CONNECTING, OPEN, CLOSED
ReadyStates == {"CONNECTING", "OPEN", "CLOSED"}

\* values of the error state of the hook (useEventStream.ts:7, 18, 40, 51)
NoError == "null"
ConnectionLost == "Connection lost. Attempting to reconnect..."
FailedToConnect == "Failed to connect to event stream"

\* the TriggerButton instances of the App, by variant (App.tsx:177, 264)
Buttons == {"secondary", "primary"}

\* how a call of onTrigger settles (part_003:14-18)
Settlements == {"resolved", "rejected"}

-----------------------------------------------------------------------------
(* Events: {type, payload, timestamp, trace_id?} (types/events.ts:1-8) *)

Ev(type, tid, payload) ==
    [type |-> type, trace_id |-> tid, payload |-> payload,
     timestamp |-> "2025-01-01T00:00:00Z"]

FailurePayloads ==
    {[endpoint |-> "CheckReturnEligibility", detail |-> "return_policy missing",
      error_type |-> Undefined]}

TraceStartPayloads == {[failing_step |-> "CheckReturnEligibility"]}

RcaPayloads ==
    {[cause |-> "sync job omits return_policy field",
      playbook |-> "add_missing_field", confidence |-> 92],
     [cause |-> "schema drift", playbook |-> "update_schema", confidence |-> 40]}

RequestedPayloads == {[file |-> "sync/catalog_sync.py"]}

\* loc_changed 0 stands for an absent loc_changed; diff_preview is absent
SucceededPayloads ==
    {[file |-> "sync/catalog_sync.py", loc_changed |-> l, diff_preview |-> Undef]
        : l \in {0, MaxLocCeiling + 1}}

ReloadPayloads == {[pid |-> 4321]}

VerifyPayloads ==
    {[before |-> "fail", after |-> "ok", replay_ms |-> 120]}

HealPayloads ==
    {[status |-> "pass", message |-> Undefined, duration_seconds |-> 7,
      outcome |-> [commit_sha |-> "abc1234"]],
     [status |-> "fail", message |-> "policy_present failed",
      duration_seconds |-> 7, outcome |-> Undef],
     [status |-> "fail", message |-> Undefined,
      duration_seconds |-> 7, outcome |-> Undef]}

OtherPayloads == {[detail |-> "policy_present"]}

EventsOf(tid) ==
    {Ev("return_api.failure", tid, p) : p \in FailurePayloads}
    \cup {Ev("trace.start", tid, p) : p \in TraceStartPayloads}
    \cup {Ev("rca.ready", tid, p) : p \in RcaPayloads}
    \cup {Ev("morph.apply.requested", tid, p) : p \in RequestedPayloads}
    \cup {Ev("morph.apply.succeeded", tid, p) : p \in SucceededPayloads}
    \cup {Ev("reload.done", tid, p) : p \in ReloadPayloads}
    \cup {Ev("verify.replay.pass", tid, p) : p \in VerifyPayloads}
    \cup {Ev("heal.completed", tid, p) : p \in HealPayloads}
    \cup {Ev("verify.replay.fail", tid, p) : p \in OtherPayloads}

\* every event updateTraceFromEvent can be called with; trace_id may be absent
EventInputs ==
    UNION {EventsOf(tid) : tid \in TraceIds}
    \cup {Ev("metrics.tick", Undefined, [detail |-> "tick"])}

-----------------------------------------------------------------------------
(* Array helpers *)

\* Array.prototype.find(s => s.step === name) !== undefined
HasStep(steps, name) == \E i \in 1..Len(steps) : steps[i].step = name

\* Array.prototype.findIndex(s => s.step === name); 0 stands for -1
findIndex(steps, name) ==
    IF HasStep(steps, name)
    THEN CHOOSE i \in 1..Len(steps) :
            /\ steps[i].step = name
            /\ \A j \in 1..(i - 1) : steps[j].step # name
    ELSE 0

\* MarkSuccess that records the latency but leaves the status as it is
MarkSuccess_LatencyOnly(steps, name, latency) ==
    LET i == findIndex(steps, name) IN
    IF i = 0 THEN steps
    ELSE [steps EXCEPT ![i] = [@ EXCEPT !.latency_ms = latency]]

\* steps[index].status = 'success'; steps[index].latency_ms = latency
MarkSuccess(steps, name, latency) ==
    LET i == findIndex(steps, name) IN
    IF i = 0 THEN steps
    ELSE [steps EXCEPT ![i] = [@ EXCEPT !.status = "success",
                                        !.latency_ms = latency]]

\* x || 1 on a number
OrOne(x) == IF x = 0 THEN 1 ELSE x

Step(name, status, ts, latency, details, failure) ==
    [step |-> name, status |-> status, timestamp |-> ts,
     latency_ms |-> latency, details |-> details, failure |-> failure]
-----------------------------------------------------------------------------
(* App.tsx:326-525  updateTraceWithEvent(trace, event): HealingTrace *)

FailureInfo(type) ==
    [type |-> type, field |-> "return_policy", expected |-> "string",
     actual |-> "null", message |-> "return_policy field is required but missing"]

\* case 'return_api.failure'  (App.tsx:331-350)
OnReturnApiFailure(trace, event) ==
    [trace EXCEPT
        !.status = "failing",
        !.steps =
            IF Len(@) = 0
            THEN <<Step("Failure Detected", "success", event.timestamp, 214,
                        <<event.payload.endpoint, ": ", event.payload.detail>>,
                        FailureInfo(IF event.payload.error_type = Undefined
                                    THEN "SchemaMismatch"
                                    ELSE event.payload.error_type))>>
            ELSE @]

\* OnTraceStart assigning the step list whatever it holds (no length check)
OnTraceStart_ResetSteps(trace, event) ==
    [trace EXCEPT
        !.status = "failing",
        !.steps = <<Step("Failure Detected", "success", event.timestamp, 214,
                         <<event.payload.failing_step>>,
                         FailureInfo("SchemaMismatch"))>>]

\* case 'trace.start'  (App.tsx:352-370)
OnTraceStart(trace, event) ==
    [trace EXCEPT
        !.status = "failing",
        !.steps =
            IF Len(@) = 0
            THEN <<Step("Failure Detected", "success", event.timestamp, 214,
                        <<event.payload.failing_step>>,
                        FailureInfo("SchemaMismatch"))>>
            ELSE @]

\* case 'rca.ready'  (App.tsx:372-389)
OnRcaReady(trace, event) ==
    [trace EXCEPT
        !.status = "rca_ready",
        !.cause = event.payload.cause,
        !.taxonomy = <<event.payload.playbook, "SchemaMismatch:return_policy">>,
        !.confidence = event.payload.confidence,
        !.steps =
            IF ~HasStep(@, "Root Cause Analysis")
            THEN Append(@, Step("Root Cause Analysis", "success", event.timestamp,
                                450, <<"Playbook: ", event.payload.playbook>>, Undef))
            ELSE @]

\* OnMorphApplyRequested without the 'Only add if not already present' lookup
OnMorphApplyRequested_AlwaysPush(trace, event) ==
    [trace EXCEPT
        !.steps = Append(@, Step("Generating Patch", "running", event.timestamp,
                                 0, <<"File: ", event.payload.file>>, Undef))]

\* case 'morph.apply.requested'  (App.tsx:391-402)
OnMorphApplyRequested(trace, event) ==
    [trace EXCEPT
        !.steps =
            IF ~HasStep(@, "Generating Patch")
            THEN Append(@, Step("Generating Patch", "running", event.timestamp,
                                0, <<"File: ", event.payload.file>>, Undef))
            ELSE @]

DefaultDiff ==
    <<"- POLICY_FIELDS = [\"price\", \"inventory\", \"category\"]",
      "+ POLICY_FIELDS = [\"price\", \"inventory\", \"category\", \"return_policy\"]">>

\* the guardrails object written at App.tsx:422-427
RecordedGuardrails(loc_changed) ==
    [allowlist |-> TRUE, max_loc |-> TRUE,
     no_secrets |-> TRUE, no_dangerous_ops |-> TRUE]

\* case 'morph.apply.succeeded'  (App.tsx:404-440)
OnMorphApplySucceeded(trace, event) ==
    LET marked == MarkSuccess(trace.steps, "Generating Patch", 850)
        loc == OrOne(event.payload.loc_changed)
    IN  [trace EXCEPT
            !.status = "applying",
            !.code_change =
                [file |-> event.payload.file,
                 diff_lines |-> IF event.payload.diff_preview = Undef
                                THEN DefaultDiff
                                ELSE event.payload.diff_preview,
                 loc_changed |-> loc,
                 guardrails |-> RecordedGuardrails(loc)],
            !.steps =
                IF ~HasStep(marked, "Applying Patch")
                THEN Append(marked, Step("Applying Patch", "running",
                                         event.timestamp, 0,
                                         <<loc, " lines changed">>, Undef))
                ELSE marked]

\* case 'reload.done'  (App.tsx:442-471)
OnReloadDone(trace, event) ==
    LET marked == MarkSuccess(trace.steps, "Applying Patch", 320) IN
    [trace EXCEPT
        !.status = "reloaded",
        !.steps =
            IF ~HasStep(marked, "Service Reloaded")
            THEN Append(marked, Step("Service Reloaded", "success",
                                     event.timestamp, 180,
                                     <<"PID: ", event.payload.pid>>, Undef))
            ELSE marked,
        !.audit =
            IF @ # Undef
            THEN [@ EXCEPT
                    !.pid = event.payload.pid,
                    !.hot_reload_success = TRUE,
                    !.files_touched =
                        <<IF trace.code_change = Undef
                          THEN "unknown" ELSE trace.code_change.file>>,
                    !.bytes_written =
                        IF trace.code_change = Undef
                        THEN 1 ELSE OrOne(trace.code_change.loc_changed)]
            ELSE @]

\* case 'verify.replay.pass'  (App.tsx:473-503)
OnVerifyReplayPass(trace, event) ==
    [trace EXCEPT
        !.status = "verifying",
        !.fix_applied = TRUE,
        !.verification =
            [before |-> event.payload.before,
             after |-> event.payload.after,
             latency_ms |-> event.payload.replay_ms,
             tests |-> <<[name |-> "policy_present", passed |-> TRUE],
                         [name |-> "eligibility_rule_clearance", passed |-> TRUE]>>,
             metrics_deltas |-> [p95_change_percent |-> -18,
                                 fail_rate_change_percent |-> -100]],
        !.steps =
            IF ~HasStep(@, "Verification")
            THEN Append(@, Step("Verification", "success", event.timestamp,
                                event.payload.replay_ms,
                                <<"Replay successful">>, Undef))
            ELSE @]

\* the status assigned at App.tsx:506
CompletedStatus(payloadStatus) ==
    IF payloadStatus = "pass" THEN "healed" ELSE "rolled_back"

\* case 'heal.completed'  (App.tsx:505-517)
OnHealCompleted(trace, event) ==
    [trace EXCEPT
        !.status = CompletedStatus(event.payload.status),
        !.duration = event.payload.duration_seconds,
        !.error_message =
            IF event.payload.status # "pass" THEN event.payload.message ELSE @,
        !.audit =
            IF @ # Undef /\ event.payload.outcome # Undef
            THEN [@ EXCEPT !.commit_sha = event.payload.outcome.commit_sha]
            ELSE @]

updateTraceWithEvent(trace, event) ==
    CASE event.type = "return_api.failure" -> OnReturnApiFailure(trace, event)
      [] event.type = "trace.start" -> OnTraceStart(trace, event)
      [] event.type = "rca.ready" -> OnRcaReady(trace, event)
      [] event.type = "morph.apply.requested" -> OnMorphApplyRequested(trace, event)
      [] event.type = "morph.apply.succeeded" -> OnMorphApplySucceeded(trace, event)
      [] event.type = "reload.done" -> OnReloadDone(trace, event)
      [] event.type = "verify.replay.pass" -> OnVerifyReplayPass(trace, event)
      [] event.type = "heal.completed" -> OnHealCompleted(trace, event)
      [] OTHER -> trace   \* default: 'Unhandled event type'

-----------------------------------------------------------------------------
(* App.tsx:301-324  updateTraceFromEvent(event) *)

\* the record built at App.tsx:307-318
newTrace(event) ==
    [trace_id |-> event.trace_id,
     status |-> "failing",
     start_time |-> event.timestamp,
     duration |-> 0,
     steps |-> <<>>,
     cause |-> Undefined,
     taxonomy |-> <<>>,
     confidence |-> 0,
     fix_applied |-> FALSE,
     error_message |-> Undefined,
     code_change |-> Undef,
     verification |-> Undef,
     audit |-> [incident_id |-> Slice08(event.trace_id),
                files_touched |-> <<>>,
                bytes_written |-> 0,
                hot_reload_success |-> FALSE,
                pid |-> 0,
                commit_sha |-> Undefined]]

\* whether updateTraceFromEvent builds a new record (App.tsx:306)
StartsNewTrace(prev, event) == prev = Null \/ prev.trace_id # event.trace_id

\* the updater passed to setActiveTrace (App.tsx:304-323)
TraceAfter(prev, event) ==
    IF event.trace_id = Undefined THEN prev
    ELSE IF StartsNewTrace(prev, event)
         THEN updateTraceWithEvent(newTrace(event), event)
         ELSE updateTraceWithEvent(prev, event)

\* the status of every step of a record, by step name ("absent" if no such step)
StepStatus(trace, name) ==
    IF trace = Null \/ ~HasStep(trace.steps, name) THEN "absent"
    ELSE trace.steps[findIndex(trace.steps, name)].status

\* history: what an observer of the trace has last seen of each step
Observe(obs, trace) ==
    IF trace = Null THEN obs
    ELSE [obs EXCEPT ![trace.trace_id] =
            [n \in StepNames |->
                IF StepStatus(trace, n) = "absent" THEN @[n]
                ELSE StepStatus(trace, n)]]

Init ==
    /\ activeTrace = Null
    /\ events = <<>>
    /\ effectDue = FALSE
    /\ lastEvent = NoEvent
    /\ prevTrace = Null
    /\ applied = <<>>
    /\ observed = [t \in TraceIds |-> [n \in StepNames |-> "absent"]]
    /\ processed = 0
    /\ uiState = [auto_heal_enabled |-> TRUE, show_raw |-> FALSE,
                  expanded_step |-> Undefined, selected_tab |-> "steps"]
    /\ lastRequest = NoRequest
    /\ url = "/api/events/stream"
    /\ hookState = "initial"
    /\ eventSources = <<>>
    /\ eventSourceRef = 0
    /\ timers = <<>>
    /\ isConnected = FALSE
    /\ error = NoError
    /\ failures = 0
    /\ urlChanges = 0
    /\ missed = <<>>
    /\ lateTimers = 0
    /\ lastFault = NoFault
    /\ isTriggering = [b \in Buttons |-> FALSE]
    /\ inFlight = [b \in Buttons |-> 0]
    /\ clicks = [b \in Buttons |-> 0]
    /\ lastSettled = [b \in Buttons |-> "none"]

\* setActiveTrace(prev => ...) of updateTraceFromEvent, with its history
ProcessEvent(event) ==
    /\ activeTrace' = TraceAfter(activeTrace, event)
    /\ lastEvent' = event
    /\ prevTrace' = activeTrace
    /\ observed' = Observe(observed, TraceAfter(activeTrace, event))
    /\ processed' = processed + 1

\* updateTraceFromEvent(event), called with any event
updateTraceFromEvent(event) ==
    /\ processed < MaxProcessed
    /\ ProcessEvent(event)
    /\ UNCHANGED <<events, effectDue, applied, uiState, lastRequest>>
    /\ UNCHANGED <<hookVars, buttonVars>>

Next == \E event \in EventInputs : updateTraceFromEvent(event)

Spec == Init /\ [][Next]_vars

-----------------------------------------------------------------------------
(* useEventStream.ts:22-35 and App.tsx:291-299: the stream and the effect *)

Malformed == [malformed |-> TRUE]

\* what JSON.parse(event.data) can yield; Malformed makes it throw
StreamData ==
    {Ev("return_api.failure", "a1b2c3d4-0001", p) : p \in FailurePayloads}
    \cup {Ev("rca.ready", "a1b2c3d4-0001", p) : p \in RcaPayloads}
    \cup {Ev("heal.completed", "a1b2c3d4-0001", p) : p \in HealPayloads}
    \cup {Ev("return_api.failure", "f6e5d4c3-0002", p) : p \in FailurePayloads}
    \cup {Ev("metrics.tick", Undefined, [detail |-> "tick"]),
          Ev("connected", Undefined, [detail |-> "hello"]),
          Malformed}

\* eventSource.onmessage  (useEventStream.ts:22-35)
onmessage(data) ==
    /\ Len(events) < MaxEvents
    /\ IF data = Malformed
       THEN /\ lastFault' = Fault("parse", Len(events))
            /\ UNCHANGED <<events, effectDue>>
       ELSE IF data.type = "connected" \/ data.type = "disconnected"
            THEN UNCHANGED <<events, effectDue, lastFault>>
            ELSE /\ events' = Append(events, data)
                 /\ effectDue' = TRUE
                 /\ UNCHANGED lastFault
    /\ UNCHANGED <<activeTrace, lastEvent, prevTrace, applied, observed, processed,
                   uiState, lastRequest>>
    /\ UNCHANGED <<connVars, buttonVars>>

\* useEffect(() => {...}, [events])  (App.tsx:291-299)
RunEffect ==
    /\ effectDue
    /\ effectDue' = FALSE
    /\ UNCHANGED <<events, uiState, lastRequest>>
    /\ UNCHANGED <<hookVars, buttonVars>>
    /\ IF Len(events) = 0
       THEN UNCHANGED <<activeTrace, lastEvent, prevTrace, applied, observed,
                        processed>>
       ELSE LET latestEvent == events[Len(events)] IN
            IF latestEvent.trace_id # Undefined
            THEN /\ ProcessEvent(latestEvent)
                 /\ applied' = Append(applied, latestEvent)
            ELSE UNCHANGED <<activeTrace, lastEvent, prevTrace, applied,
                             observed, processed>>

NextStream ==
    \/ \E data \in StreamData : onmessage(data)
    \/ RunEffect

SpecStream == Init /\ [][NextStream]_vars

-----------------------------------------------------------------------------
(* One healing run: the events of one trace, each once, in lifecycle order *)

\* the event types of a run, in the order the back end publishes them
RunOrder ==
    <<{"return_api.failure", "trace.start"}, {"rca.ready"},
      {"morph.apply.requested"}, {"morph.apply.succeeded"}, {"reload.done"},
      {"verify.replay.pass"}, {"heal.completed"}>>

\* the next event of the run is handed to updateTraceFromEvent
DeliverInOrder(event) ==
    /\ Len(applied) < Len(RunOrder)
    /\ event.type \in RunOrder[Len(applied) + 1]
    /\ event.trace_id # Undefined
    /\ Len(applied) > 0 => event.trace_id = applied[1].trace_id
    /\ event.type = "heal.completed" => event.payload.status = "pass"
    /\ ProcessEvent(event)
    /\ applied' = Append(applied, event)
    /\ UNCHANGED <<events, effectDue, uiState, lastRequest>>
    /\ UNCHANGED <<hookVars, buttonVars>>

\* an event without trace id is handed to updateTraceFromEvent in between
DeliverUnscoped(event) ==
    /\ event.trace_id = Undefined
    /\ processed - Len(applied) < MaxUnscoped
    /\ ProcessEvent(event)
    /\ UNCHANGED <<events, effectDue, applied, uiState, lastRequest>>
    /\ UNCHANGED <<hookVars, buttonVars>>

NextRun ==
    \/ \E event \in EventInputs : DeliverInOrder(event)
    \/ \E event \in EventInputs : DeliverUnscoped(event)

SpecRun == Init /\ [][NextRun]_vars

-----------------------------------------------------------------------------
(* ControlBar (part_004:263-265) and the handlers of the App it calls *)

\* const canReplay = trace && [...].includes(trace.status)
canReplay(trace) ==
    trace # Null /\ trace.status \in {"reloaded", "verifying", "healed"}

\* const canRollback = trace && [...].includes(trace.status)
canRollback(trace) ==
    trace # Null /\ trace.status \in {"healed", "rolled_back"}

\* needsApproval without the auto-heal condition
needsApproval_IgnoresAutoHeal(trace, ui) ==
    trace # Null /\ trace.status = "rca_ready"

\* const needsApproval = !uiState.auto_heal_enabled && trace && ...
needsApproval(trace, ui) ==
    ~ui.auto_heal_enabled /\ trace # Null /\ trace.status = "rca_ready"

\* the 'Trigger Failure' buttons are rendered (part_004:379, App.tsx:685)
canTrigger(trace) == IF trace = Null THEN TRUE ELSE trace.status \in Terminal

\* what a fetch of a handler can come to: response.ok, !response.ok, a throw
Outcomes == {"ok", "failed", "threw"}

Request(op, tid, outcome) == [op |-> op, trace_id |-> tid, outcome |-> outcome]

\* the trace events the back end streams while the control bar is used:
\* every event type of one trace, heal.completed with either status
ControlEvents ==
    {e \in EventsOf("a1b2c3d4-0001") :
        /\ e.type = "rca.ready" => e.payload.confidence = 92
        /\ e.type = "morph.apply.succeeded" => e.payload.loc_changed = 0
        /\ e.type = "heal.completed" =>
              (e.payload.status = "pass" \/ e.payload.message # Undefined)}

\* handleToggleAutoHeal  (App.tsx:534-536)
handleToggleAutoHeal ==
    /\ uiState' = [uiState EXCEPT !.auto_heal_enabled = ~@]
    /\ UNCHANGED <<activeTrace, events, effectDue, lastEvent, prevTrace, applied,
                   observed, processed, lastRequest>>
    /\ UNCHANGED <<hookVars, buttonVars>>

\* handleReplay, called by the enabled Replay button  (App.tsx:574-591)
handleReplay ==
    /\ canReplay(activeTrace)
    /\ activeTrace # Null
    /\ \E outcome \in Outcomes :
          lastRequest' = Request("replay", activeTrace.trace_id, outcome)
    /\ UNCHANGED <<activeTrace, events, effectDue, lastEvent, prevTrace, applied,
                   observed, processed, uiState>>
    /\ UNCHANGED <<hookVars, buttonVars>>

\* handleRollback that marks the record rolled_back itself once the request
\* was answered with ok
handleRollback_MarksTrace ==
    /\ canRollback(activeTrace)
    /\ activeTrace # Null
    /\ lastRequest' = Request("rollback", activeTrace.trace_id, "ok")
    /\ activeTrace' = [activeTrace EXCEPT !.status = "rolled_back",
                                          !.fix_applied = FALSE]
    /\ UNCHANGED <<events, effectDue, lastEvent, prevTrace, applied,
                   observed, processed, uiState>>
    /\ UNCHANGED <<hookVars, buttonVars>>

\* handleRollback, called by the enabled Rollback button  (App.tsx:593-614)
handleRollback ==
    /\ canRollback(activeTrace)
    /\ activeTrace # Null
    /\ \E confirmed \in BOOLEAN :
          IF confirmed
          THEN \E outcome \in Outcomes :
                  lastRequest' = Request("rollback", activeTrace.trace_id, outcome)
          ELSE UNCHANGED lastRequest
    /\ UNCHANGED <<activeTrace, events, effectDue, lastEvent, prevTrace, applied,
                   observed, processed, uiState>>
    /\ UNCHANGED <<hookVars, buttonVars>>

\* handleApprove, called by the rendered Approve button  (App.tsx:616-633)
handleApprove ==
    /\ needsApproval(activeTrace, uiState)
    /\ activeTrace # Null
    /\ \E outcome \in Outcomes :
          lastRequest' = Request("approve", activeTrace.trace_id, outcome)
    /\ UNCHANGED <<activeTrace, events, effectDue, lastEvent, prevTrace, applied,
                   observed, processed, uiState>>
    /\ UNCHANGED <<hookVars, buttonVars>>

\* triggerHealing, called by a rendered Trigger button  (App.tsx:555-572)
triggerHealing ==
    /\ canTrigger(activeTrace)
    /\ \E outcome \in Outcomes :
          lastRequest' = Request("trigger", Undefined, outcome)
    /\ UNCHANGED <<activeTrace, events, effectDue, lastEvent, prevTrace, applied,
                   observed, processed, uiState>>
    /\ UNCHANGED <<hookVars, buttonVars>>

NextControl ==
    \/ \E event \in ControlEvents : updateTraceFromEvent(event)
    \/ handleToggleAutoHeal
    \/ handleReplay
    \/ handleRollback
    \/ handleApprove
    \/ triggerHealing

SpecControl == Init /\ [][NextControl]_vars

-----------------------------------------------------------------------------
(* Vocabulary of the claims *)

\* the last event was folded into the record that was already active
SameRecord ==
    /\ prevTrace # Null
    /\ lastEvent.trace_id = prevTrace.trace_id

\* the last event made updateTraceFromEvent build a new record
NewRecord ==
    /\ lastEvent # NoEvent
    /\ lastEvent.trace_id # Undefined
    /\ StartsNewTrace(prevTrace, lastEvent)

\* position of a status along the lifecycle of types/events.ts:28
StatusRank(status) ==
    CASE status = "failing" -> 1
      [] status = "rca_ready" -> 2
      [] status = "applying" -> 3
      [] status = "reloaded" -> 4
      [] status = "verifying" -> 5
      [] status \in Terminal -> 6
      [] OTHER -> 0

\* the status an event type moves the trace to (0 steps for the others)
EventStatus(type) ==
    CASE type = "rca.ready" -> "rca_ready"
      [] type = "morph.apply.succeeded" -> "applying"
      [] type = "reload.done" -> "reloaded"
      [] type = "verify.replay.pass" -> "verifying"
      [] OTHER -> "idle"

\* the step an event type appends, the idempotency key of its redelivery
EventStep(type) ==
    CASE type = "rca.ready" -> "Root Cause Analysis"
      [] type = "morph.apply.requested" -> "Generating Patch"
      [] type = "morph.apply.succeeded" -> "Applying Patch"
      [] type = "reload.done" -> "Service Reloaded"
      [] type = "verify.replay.pass" -> "Verification"
      [] OTHER -> "none"

\* position of a step status along pending -> running -> {success, error}
StepRank(status) ==
    CASE status = "pending" -> 1
      [] status = "running" -> 2
      [] status \in {"success", "error"} -> 3
      [] OTHER -> 0

\* the transitions of the incident state machine
Edges ==
    {<<"failing", "rca_ready">>, <<"rca_ready", "applying">>,
     <<"rca_ready", "rolled_back">>, <<"applying", "reloaded">>,
     <<"applying", "rolled_back">>, <<"reloaded", "verifying">>,
     <<"verifying", "healed">>, <<"verifying", "rolled_back">>}

\* the record the program holds for a trace id
RecordOf(tid) ==
    IF activeTrace # Null /\ activeTrace.trace_id = tid THEN activeTrace ELSE Null

\* the trace-scoped events of a list
TraceScoped(list) == SelectSeq(list, LAMBDA e : e.trace_id # Undefined)

-----------------------------------------------------------------------------
(* Claims *)

\* C1: once the active trace is healed or rolled_back, an event carrying its
\* trace id leaves every field of the record unchanged.
\* Fails on the code: updateTraceWithEvent has no terminal check, e.g.
\* heal.completed(pass) then rca.ready gives status rca_ready.
C1_TerminalAbsorbing ==
    (SameRecord /\ prevTrace.status \in Terminal) => activeTrace = prevTrace

\* C2: a trace whose verification failed (the completion names the failed
\* test in error_message) is rolled_back, never healed or any other status.
\* Fails on the code: a later heal.completed(pass) or any status-setting
\* event overwrites rolled_back while error_message still names the test.
C2_FailedVerificationRolledBack ==
    (activeTrace # Null /\ activeTrace.error_message \in FailedTestMessages)
        => activeTrace.status = "rolled_back"

\* C3: a trace that records an apply or a reload holds a code_change whose
\* four guardrail checks are all true.
\* Fails on the code: reload.done processed before morph.apply.succeeded
\* records the reload with no code_change.
C3_ApplyOnlyAfterGuardrails ==
    (/\ activeTrace # Null
     /\ \/ activeTrace.status \in {"applying", "reloaded"}
        \/ activeTrace.audit.hot_reload_success)
        => /\ activeTrace.code_change # Undef
           /\ activeTrace.code_change.guardrails.allowlist
           /\ activeTrace.code_change.guardrails.max_loc
           /\ activeTrace.code_change.guardrails.no_secrets
           /\ activeTrace.code_change.guardrails.no_dangerous_ops

\* C4: a code change whose loc_changed exceeds the ceiling is recorded with
\* max_loc = false and its trace is not applying.
\* Fails on the code: the guardrails are written as literals, all true.
C4_MaxLocCeiling ==
    (/\ activeTrace # Null
     /\ activeTrace.code_change # Undef
     /\ activeTrace.code_change.loc_changed > MaxLocCeiling)
        => /\ ~activeTrace.code_change.guardrails.max_loc
           /\ activeTrace.status # "applying"

\* C5: an event type processed again for a trace that already holds that
\* event's step and is past that event's status is a no-op on the record.
\* Fails on the code: the step is not duplicated but the status is reset.
C5_RedeliveryNoOp ==
    (/\ SameRecord
     /\ EventStatus(lastEvent.type) # "idle"
     /\ HasStep(prevTrace.steps, EventStep(lastEvent.type))
     /\ StatusRank(prevTrace.status) > StatusRank(EventStatus(lastEvent.type)))
        => activeTrace = prevTrace

\* C6: in every reachable trace record no two steps have the same name.
C6_UniqueStepNames ==
    activeTrace # Null =>
        \A i, j \in 1..Len(activeTrace.steps) :
            activeTrace.steps[i].step = activeTrace.steps[j].step => i = j

\* C6 witness: morph.apply.requested was processed for a record that already
\* had a 'Generating Patch' step, and the record has exactly one.
C6_Witness ==
    /\ SameRecord
    /\ lastEvent.type = "morph.apply.requested"
    /\ HasStep(prevTrace.steps, "Generating Patch")
    /\ Cardinality({i \in 1..Len(activeTrace.steps) :
                      activeTrace.steps[i].step = "Generating Patch"}) = 1

\* C7: for every trace id and step name, the status an observer sees only
\* moves forward along pending -> running -> {success, error}.
\* Fails on the code through C10: an event of another trace discards the
\* record, and the trace's next event rebuilds its steps from scratch.
C7_StepStatusMonotonic ==
    [][\A t \in TraceIds, n \in StepNames :
          StepRank(observed'[t][n]) >= StepRank(observed[t][n])]_vars

\* C8: a trace starts in status failing and every status change follows an
\* edge of the incident state machine.
\* Fails on the code: every case assigns its status whatever the current one.
C8_StatusFollowsEdges ==
    (lastEvent # NoEvent /\ lastEvent.trace_id # Undefined) =>
        LET before == IF NewRecord THEN "failing" ELSE prevTrace.status IN
        activeTrace.status # before =>
            <<before, activeTrace.status>> \in Edges

\* C9: once the effect has run, every trace-scoped event of the events list
\* has been applied to the trace exactly once, in the order received.
\* Fails on the code: the effect reads only events[events.length - 1].
C9_EveryEventApplied ==
    ~effectDue => applied = TraceScoped(events)

\* C10: processing an event of another trace leaves the record of the
\* active trace unchanged and still available.
\* Fails on the code: there is one activeTrace, replaced by the new record.
C10_TracesIndependent ==
    (/\ prevTrace # Null
     /\ lastEvent.trace_id # Undefined
     /\ lastEvent.trace_id # prevTrace.trace_id)
        => RecordOf(prevTrace.trace_id) = prevTrace

\* the status of the record before the last event (a new record starts failing)
StatusBefore == IF NewRecord THEN "failing" ELSE prevTrace.status

\* the step names of a step list, in order
NamesOf(steps) == [i \in 1..Len(steps) |-> steps[i].step]

\* s is a prefix of t
IsPrefix(s, t) == Len(s) <= Len(t) /\ \A i \in 1..Len(s) : s[i] = t[i]

\* the number of steps of a record with a given status
CountStatus(trace, status) ==
    Cardinality({i \in 1..Len(trace.steps) : trace.steps[i].status = status})

\* C11: a verification result is on the trace only after a reload was
\* recorded for it (audit.hot_reload_success = true).
\* Fails on the code: verify.replay.pass is processed in any state, also as
\* the first event of a trace.
C11_VerificationAfterReload ==
    (activeTrace # Null /\ activeTrace.verification # Undef)
        => activeTrace.audit.hot_reload_success

\* C12: the status becomes healed only from verifying and only with a
\* recorded verification whose tests all passed.
\* Fails on the code: heal.completed(pass) sets healed from every status.
C12_HealedOnlyFromVerifying ==
    (/\ lastEvent # NoEvent
     /\ lastEvent.trace_id # Undefined
     /\ activeTrace.status = "healed"
     /\ StatusBefore # "healed")
        => /\ StatusBefore = "verifying"
           /\ activeTrace.verification # Undef
           /\ \A i \in 1..Len(activeTrace.verification.tests) :
                 activeTrace.verification.tests[i].passed

\* C13: once cause, confidence and taxonomy are set, no later event of the
\* trace changes them.
\* Fails on the code: every rca.ready assigns the three fields again.
C13_DiagnosisSetOnce ==
    (SameRecord /\ prevTrace.cause # Undefined)
        => /\ activeTrace.cause = prevTrace.cause
           /\ activeTrace.confidence = prevTrace.confidence
           /\ activeTrace.taxonomy = prevTrace.taxonomy

\* C14: a rolled_back trace has an error_message, and a healed trace has none.
\* Fails on the code: the message is copied from the payload even when it is
\* absent, and a passing completion never clears an earlier message.
C14_ErrorMessageMatchesOutcome ==
    activeTrace # Null =>
        /\ activeTrace.status = "rolled_back"
              => activeTrace.error_message # Undefined
        /\ activeTrace.status = "healed"
              => activeTrace.error_message = Undefined

\* C15: for the events processed for one trace, the step names before an
\* event are a prefix of the step names after it (append-only, in order).
C15_StepsAppendOnly ==
    (lastEvent # NoEvent /\ lastEvent.trace_id # Undefined) =>
        IsPrefix(IF NewRecord THEN <<>> ELSE NamesOf(prevTrace.steps),
                 NamesOf(activeTrace.steps))

\* C15 witness: an event of the same trace updated a running step in place
\* and appended a new step behind the existing ones.
C15_Witness ==
    /\ SameRecord
    /\ Len(prevTrace.steps) >= 2
    /\ Len(activeTrace.steps) = Len(prevTrace.steps) + 1
    /\ \E i \in 1..Len(prevTrace.steps) :
          /\ prevTrace.steps[i].status = "running"
          /\ activeTrace.steps[i].status = "success"

\* C16: the first step of a non-empty step list is 'Failure Detected'.
\* Fails on the code: the failure step is written only into an empty list,
\* so a trace whose first event is another one never gets it in front.
C16_FailureIsFirstStep ==
    (activeTrace # Null /\ Len(activeTrace.steps) > 0)
        => activeTrace.steps[1].step = "Failure Detected"

\* C18: at most one step of a trace is running.
\* Fails on the code: morph.apply.succeeded before morph.apply.requested
\* leaves 'Applying Patch' and 'Generating Patch' both running.
C18_OneRunningStep ==
    activeTrace # Null => CountStatus(activeTrace, "running") <= 1

\* the status after each event of a healing run
RunStatus ==
    <<"failing", "rca_ready", "rca_ready", "applying", "reloaded",
      "verifying", "healed">>

\* the steps of a completed healing run, in order
RunSteps ==
    <<"Failure Detected", "Root Cause Analysis", "Generating Patch",
      "Applying Patch", "Service Reloaded", "Verification">>

\* C17: when the events of one trace are processed once each in lifecycle
\* order, the status is failing, rca_ready, applying, reloaded, verifying,
\* healed in that order, and the final record has the six steps in order,
\* all success, four guardrails true, both tests passed and
\* fail_rate_change_percent = -100.
C17_HappyPath ==
    Len(applied) >= 1 =>
        /\ activeTrace.status = RunStatus[Len(applied)]
        /\ Len(applied) = Len(RunOrder) =>
            /\ NamesOf(activeTrace.steps) = RunSteps
            /\ \A i \in 1..Len(activeTrace.steps) :
                  activeTrace.steps[i].status = "success"
            /\ activeTrace.code_change.guardrails =
                  [allowlist |-> TRUE, max_loc |-> TRUE,
                   no_secrets |-> TRUE, no_dangerous_ops |-> TRUE]
            /\ Len(activeTrace.verification.tests) = 2
            /\ \A i \in 1..2 : activeTrace.verification.tests[i].passed
            /\ activeTrace.verification.metrics_deltas.fail_rate_change_percent
                  = -100

\* C17 witness: all seven events of a run were processed and the trace is
\* healed with six steps.
C17_Witness ==
    /\ Len(applied) = Len(RunOrder)
    /\ applied[Len(applied)].type = "heal.completed"
    /\ activeTrace.status = "healed"
    /\ Len(activeTrace.steps) = 6

\* C19: for every trace in a non-terminal status the rollback control is
\* enabled (the request-rollback operation is available).
\* Fails on the code: canRollback holds in healed and rolled_back only.
C19_RollbackWhileInFlight ==
    (activeTrace # Null /\ activeTrace.status \notin Terminal)
        => canRollback(activeTrace)

\* C20: the approve operation is offered exactly when auto-heal is disabled
\* and the active trace is rca_ready.
C20_ApproveOffered ==
    (ENABLED handleApprove)
        <=> /\ ~uiState.auto_heal_enabled
            /\ activeTrace # Null
            /\ activeTrace.status = "rca_ready"

\* C20 witness: an approval was requested for the rca_ready trace while
\* auto-heal is disabled.
C20_Witness ==
    /\ lastRequest # NoRequest
    /\ lastRequest.op = "approve"
    /\ activeTrace # Null
    /\ activeTrace.status = "rca_ready"
    /\ lastRequest.trace_id = activeTrace.trace_id
    /\ ~uiState.auto_heal_enabled

-----------------------------------------------------------------------------
(* useEventStream.ts:10-65: the connection the hook keeps to the stream *)

\* error events the EventSource objects fire in one behaviour
MaxFailures == 2
\* changes of the url argument in one behaviour
MaxUrlChanges == 1

\* urls the EventSource constructor rejects with a SyntaxError
InvalidUrls == {"http://"}

\* every url the hook can be rendered with
UrlInputs == Urls \cup InvalidUrls

\* the object new EventSource(u) yields (line 13); requested is history: the
\* url argument of the hook at the moment the object was created
NewSource(u, current) ==
    [url |-> u, readyState |-> "CONNECTING", requested |-> current]

\* connectEventSource of the effect that was run with url u (lines 11-54),
\* called with the sources and eventSourceRef.current of that moment
connectEventSource(sources, ref, u, current) ==
    IF u \in InvalidUrls
    THEN /\ eventSources' = sources
         /\ eventSourceRef' = ref
         /\ error' = FailedToConnect
    ELSE /\ eventSources' = Append(sources, NewSource(u, current))
         /\ eventSourceRef' = Len(sources) + 1
         /\ error' = error

\* eventSourceRef.current.close() of the effect cleanup (lines 59-60)
CleanedUp(sources, ref) ==
    IF ref = 0 THEN sources
    ELSE [sources EXCEPT ![ref].readyState = "CLOSED"]

\* the effect runs for the first time (lines 10-56)
RunHookEffect ==
    /\ hookState = "initial"
    /\ hookState' = "mounted"
    /\ connectEventSource(eventSources, eventSourceRef, url, url)
    /\ UNCHANGED <<url, timers, isConnected, failures, urlChanges, missed,
                   lateTimers, lastFault>>
    /\ UNCHANGED <<appVars, buttonVars>>

\* the connection of source i is established; eventSource.onopen (lines 16-20)
onopen(i) ==
    /\ eventSources[i].readyState = "CONNECTING"
    /\ eventSources' = [eventSources EXCEPT ![i].readyState = "OPEN"]
    /\ isConnected' = TRUE
    /\ error' = NoError
    /\ UNCHANGED <<url, hookState, eventSourceRef, timers, failures, urlChanges,
                   missed, lateTimers, lastFault>>
    /\ UNCHANGED <<appVars, buttonVars>>

\* the timer of onerror that never looks at readyState
RetryCheck_Always(sources, ref) == ref # 0

\* eventSourceRef.current?.readyState === EventSource.CLOSED (line 44)
RetryCheck(sources, ref) ==
    IF ref = 0 THEN FALSE ELSE sources[ref].readyState = "CLOSED"

\* the callbacks onerror leaves the timers untouched
Scheduled_Nothing(pending, u) == pending

\* setTimeout(() => {...}, 3000) of onerror (lines 43-47): the callback is
\* queued behind the pending ones, with the url of its connectEventSource
Scheduled(pending, u) == Append(pending, u)

\* source i fires an error event, after which the browser retries (CONNECTING)
\* or gives up (CLOSED); eventSource.onerror (lines 37-48)
onerror(i, fatal) ==
    /\ failures < MaxFailures
    /\ eventSources[i].readyState # "CLOSED"
    /\ eventSources' = [eventSources EXCEPT
            ![i].readyState = IF fatal THEN "CLOSED" ELSE "CONNECTING"]
    /\ isConnected' = FALSE
    /\ error' = ConnectionLost
    /\ timers' = Scheduled(timers, eventSources[i].url)
    /\ failures' = failures + 1
    /\ lastFault' = Fault("connection", Len(events))
    /\ UNCHANGED <<url, hookState, eventSourceRef, urlChanges, missed,
                   lateTimers>>
    /\ UNCHANGED <<appVars, buttonVars>>

\* the oldest pending timer of onerror fires (lines 43-47)
RetryTimer ==
    /\ timers # <<>>
    /\ timers' = Tail(timers)
    /\ IF RetryCheck(eventSources, eventSourceRef)
       THEN connectEventSource(eventSources, eventSourceRef, Head(timers), url)
       ELSE UNCHANGED <<eventSources, eventSourceRef, error>>
    /\ lateTimers' = IF hookState = "unmounted" THEN lateTimers + 1
                      ELSE lateTimers
    /\ UNCHANGED <<url, hookState, isConnected, failures, urlChanges, missed,
                   lastFault>>
    /\ UNCHANGED <<appVars, buttonVars>>

\* eventSourceRef.current after a cleanup that leaves the reference in place
RefAfterCleanup_Kept(ref) == ref

\* eventSourceRef.current = null of the effect cleanup (line 61)
RefAfterCleanup(ref) == 0

\* the hook is rendered with another url: the cleanup of the previous effect
\* (lines 58-64), then the effect with the new url (lines 10-56)
ChangeUrl(u) ==
    /\ hookState = "mounted"
    /\ u # url
    /\ urlChanges < MaxUrlChanges
    /\ url' = u
    /\ urlChanges' = urlChanges + 1
    /\ isConnected' = FALSE
    /\ connectEventSource(CleanedUp(eventSources, eventSourceRef),
                          RefAfterCleanup(eventSourceRef), u, u)
    /\ UNCHANGED <<hookState, timers, failures, missed, lateTimers, lastFault>>
    /\ UNCHANGED <<appVars, buttonVars>>

\* the component unmounts: the effect cleanup (lines 58-64)
Unmount ==
    /\ hookState = "mounted"
    /\ hookState' = "unmounted"
    /\ eventSources' = CleanedUp(eventSources, eventSourceRef)
    /\ eventSourceRef' = RefAfterCleanup(eventSourceRef)
    /\ isConnected' = FALSE
    /\ UNCHANGED <<url, timers, error, failures, urlChanges, missed,
                   lateTimers, lastFault>>
    /\ UNCHANGED <<appVars, buttonVars>>

NextHook ==
    \/ RunHookEffect
    \/ \E i \in 1..Len(eventSources) : onopen(i)
    \/ \E i \in 1..Len(eventSources) : \E fatal \in BOOLEAN : onerror(i, fatal)
    \/ RetryTimer
    \/ \E u \in UrlInputs : ChangeUrl(u)
    \/ Unmount

\* the event loop runs every callback it holds: a pending timer fires, a
\* scheduled effect runs
SpecHook ==
    /\ Init
    /\ [][NextHook]_vars
    /\ WF_vars(RunHookEffect)
    /\ WF_vars(RetryTimer)

-----------------------------------------------------------------------------
(* Claims about the connection of the hook *)

\* the sources that are connecting or open
LiveSources ==
    {i \in 1..Len(eventSources) : eventSources[i].readyState # "CLOSED"}

\* the connection is lost: the current source was closed by an error
ConnectionIsLost ==
    IF eventSourceRef = 0 THEN FALSE
    ELSE eventSources[eventSourceRef].readyState = "CLOSED"

\* C26: whenever the current EventSource is CLOSED after an error and the hook
\* stays mounted, a new connection attempt is eventually made (a new
\* EventSource, or the constructor's failure is reported); this holds for
\* every source, so also when the reconnect attempt itself failed.
C26_ReconnectAfterLoss ==
    \A n \in 1..(MaxFailures + MaxUrlChanges + 1) :
        (hookState = "mounted" /\ ConnectionIsLost /\ Len(eventSources) = n)
            ~> \/ hookState # "mounted"
               \/ Len(eventSources) > n
               \/ error = FailedToConnect

\* two reconnects were made by timers, the second after the first one failed
C26_Witness ==
    /\ hookState = "mounted"
    /\ urlChanges = 0
    /\ failures = 2
    /\ Len(eventSources) = 3
    /\ eventSources[2].readyState = "CLOSED"

\* C27: at most one EventSource of the hook is connecting or open at any time.
C27_OneLiveSource == Cardinality(LiveSources) <= 1

\* errors, timers and a url change have happened and one source is open
C27_Witness ==
    /\ Len(eventSources) >= 3
    /\ urlChanges > 0
    /\ failures > 0
    /\ \E i \in LiveSources : eventSources[i].readyState = "OPEN"

\* C28: once the hook is unmounted no EventSource is created any more, also
\* when a timer scheduled before the cleanup fires after it.
C28_NoConnectAfterCleanup ==
    [][hookState = "unmounted" => eventSources' = eventSources]_vars

\* a timer fired after the cleanup while the last source had failed fatally
C28_Witness ==
    /\ hookState = "unmounted"
    /\ lateTimers > 0
    /\ timers = <<>>

\* C29: every EventSource is created with the url argument the hook has at
\* that moment, also by a timer scheduled under an earlier url.
\* Fails on the code: the timer calls the connectEventSource of the earlier
\* effect, and its check reads the shared eventSourceRef, which by then holds
\* the failed source of the new url.
C29_ConnectsToCurrentUrl ==
    \A i \in 1..Len(eventSources) :
        eventSources[i].url = eventSources[i].requested

-----------------------------------------------------------------------------
(* The stream over the connection of the hook: messages reach onmessage only *)
(* through an open EventSource                                              *)

\* events published in one behaviour while no connection is open
MaxMissed == 1

\* what the stream carries here: the first and the last event of one trace,
\* and a message that does not parse
OutageData ==
    {data \in StreamData :
        IF data = Malformed THEN TRUE
        ELSE /\ data.trace_id = "a1b2c3d4-0001"
             /\ data.type \in {"return_api.failure", "heal.completed"}
             /\ data.type = "heal.completed" => data.payload.status = "pass"}

\* the sources whose connection is established
OpenSources ==
    {i \in 1..Len(eventSources) : eventSources[i].readyState = "OPEN"}

\* source i receives a message: eventSource.onmessage (lines 22-35)
Deliver(i, data) ==
    /\ i \in OpenSources
    /\ onmessage(data)

\* the bus publishes an event while the observer has no open connection:
\* delivery to a live subscriber is best effort, it misses the event
PublishUnheard(event) ==
    /\ hookState = "mounted"
    /\ OpenSources = {}
    /\ Len(missed) < MaxMissed
    /\ missed' = Append(missed, event)
    /\ UNCHANGED <<url, hookState, eventSources, eventSourceRef, timers,
                   isConnected, error, failures, urlChanges, lateTimers,
                   lastFault>>
    /\ UNCHANGED <<appVars, buttonVars>>

NextOutage ==
    \/ RunHookEffect
    \/ \E i \in 1..Len(eventSources) : onopen(i)
    \/ \E i \in 1..Len(eventSources) : \E fatal \in BOOLEAN : onerror(i, fatal)
    \/ RetryTimer
    \/ \E i \in 1..Len(eventSources) : \E data \in OutageData : Deliver(i, data)
    \/ RunEffect
    \/ \E event \in OutageData \ {Malformed} : PublishUnheard(event)
    \/ handleReplay

\* the event loop runs every callback it holds: a pending timer fires, a
\* scheduled effect runs
SpecOutage ==
    /\ Init
    /\ [][NextOutage]_vars
    /\ WF_vars(RunHookEffect)
    /\ WF_vars(RetryTimer)
    /\ WF_vars(RunEffect)

\* the stream and the effect of the App, the effect always being run
SpecStreamLive == SpecStream /\ WF_vars(RunEffect)

-----------------------------------------------------------------------------
(* Claims about outages, transport errors and termination *)

\* s is a final part of t
IsSuffix(s, t) ==
    /\ Len(s) <= Len(t)
    /\ \A i \in 1..Len(s) : s[i] = t[Len(t) - Len(s) + i]

\* C21: once a connection is open again, every event published during the
\* outage is eventually handed to updateTraceFromEvent.
\* Fails on the code: the hook requests no history when it reconnects, and
\* handleReplay only posts /api/replay/<trace_id> and logs the answer.
C21_CatchUpAfterReconnect ==
    (missed # <<>> /\ OpenSources # {})
        ~> \A k \in 1..Len(missed) :
              \E j \in 1..Len(applied) : applied[j] = missed[k]

\* C22: every trace the observer holds eventually is healed or rolled_back.
\* Fails on the code: the front end holds no timer for a trace; without a
\* heal.completed event the record keeps its status forever, and no case of
\* updateTraceWithEvent writes a step with status error.
C22_EventuallyTerminal ==
    (activeTrace # Null)
        ~> (activeTrace # Null /\ activeTrace.status \in Terminal)

\* C24: a message that fails to parse and a connection error leave the events
\* list and the active trace unchanged, and the trace-scoped events appended
\* after the error have all been handed to updateTraceFromEvent, in order,
\* once the effect has run.
\* Fails on the code through C9: the error steps change nothing, the messages
\* received afterwards are appended, but of two messages appended before
\* the effect runs only the last one is processed.
C24_TransportErrorsIsolated ==
    [][/\ lastFault' # lastFault =>
            (events' = events /\ activeTrace' = activeTrace)
       /\ (lastFault'.kind # "none" /\ ~effectDue') =>
            IsSuffix(TraceScoped(SubSeq(events', lastFault'.at + 1, Len(events'))),
                     applied')]_vars

\* C25: in a healed or rolled_back trace every step is success or error.
\* Fails on the code: heal.completed leaves the steps as they are, so a step
\* pushed as running by morph.apply.requested or morph.apply.succeeded stays
\* running in the terminal record.
C25_NoRunningStepWhenTerminal ==
    (activeTrace # Null /\ activeTrace.status \in Terminal)
        => \A i \in 1..Len(activeTrace.steps) :
              activeTrace.steps[i].status \in {"success", "error"}

-----------------------------------------------------------------------------
(* Every handler of the App next to the stream: the control bar, the step   *)
(* list of the ExecutionLane and the toggles                                *)

\* the trace events streamed while the handlers are used: they lead one trace
\* to rca_ready (Approve), reloaded and healed (Replay, Rollback) and
\* rolled_back
ObserverEvents ==
    {e \in ControlEvents :
        e.type \in {"return_api.failure", "rca.ready", "reload.done",
                    "heal.completed"}}

\* handleStepExpand, called with a step the ExecutionLane shows
\* (App.tsx:527-532, ExecutionLane.tsx:97)
handleStepExpand(stepName) ==
    /\ activeTrace # Null
    /\ HasStep(activeTrace.steps, stepName)
    /\ uiState' = [uiState EXCEPT !.expanded_step =
                        IF @ = stepName THEN Undefined ELSE stepName]
    /\ UNCHANGED <<activeTrace, events, effectDue, lastEvent, prevTrace, applied,
                   observed, processed, lastRequest>>
    /\ UNCHANGED <<hookVars, buttonVars>>

\* handleToggleRaw  (App.tsx:538-540)
handleToggleRaw ==
    /\ uiState' = [uiState EXCEPT !.show_raw = ~@]
    /\ UNCHANGED <<activeTrace, events, effectDue, lastEvent, prevTrace, applied,
                   observed, processed, lastRequest>>
    /\ UNCHANGED <<hookVars, buttonVars>>

NextObserver ==
    \/ \E event \in ObserverEvents : updateTraceFromEvent(event)
    \/ \E stepName \in StepNames : handleStepExpand(stepName)
    \/ handleToggleAutoHeal
    \/ handleToggleRaw
    \/ handleReplay
    \/ handleRollback
    \/ handleApprove
    \/ triggerHealing

SpecObserver == Init /\ [][NextObserver]_vars

\* C23: a step in which a handler sent a request (answered with ok, with an
\* error status, or thrown) or changed the UI state leaves the active trace
\* as it is; the active trace changes only in a step that processes an event.
C23_ObserversNeverMutate ==
    [][/\ (lastRequest' # lastRequest \/ uiState' # uiState)
            => activeTrace' = activeTrace
       /\ activeTrace' # activeTrace => processed' = processed + 1]_vars

\* a rollback request threw for a healed trace, with every toggle used
C23_Witness ==
    /\ activeTrace # Null
    /\ activeTrace.status = "healed"
    /\ lastRequest = Request("rollback", activeTrace.trace_id, "threw")
    /\ uiState.show_raw
    /\ ~uiState.auto_heal_enabled
    /\ uiState.expanded_step = "Root Cause Analysis"

-----------------------------------------------------------------------------
(* part_003: TriggerButton.  The update of handleClick is made inside the    *)
(* click handler, so the button is rendered with it before the next click   *)

\* clicks on one TriggerButton in one behaviour
MaxClicks == 3

\* isTriggering after the call settled, when it is reset only behind the await
AfterSettle_OnlyOnResolve(settlement) == settlement = "rejected"

\* finally { setIsTriggering(false) }  (part_003:16-18)
AfterSettle(settlement) == FALSE

\* a click on button b, which is disabled while isTriggering: handleClick up
\* to the await  (part_003:12-15, 30)
handleClick(b) ==
    /\ ~isTriggering[b]
    /\ clicks[b] < MaxClicks
    /\ isTriggering' = [isTriggering EXCEPT ![b] = TRUE]
    /\ inFlight' = [inFlight EXCEPT ![b] = @ + 1]
    /\ clicks' = [clicks EXCEPT ![b] = @ + 1]
    /\ UNCHANGED lastSettled
    /\ UNCHANGED <<appVars, hookVars>>

\* the promise of onTrigger() settles: handleClick behind the await
\* (part_003:15-18)
Settle(b, settlement) ==
    /\ inFlight[b] > 0
    /\ inFlight' = [inFlight EXCEPT ![b] = @ - 1]
    /\ isTriggering' = [isTriggering EXCEPT ![b] = AfterSettle(settlement)]
    /\ lastSettled' = [lastSettled EXCEPT ![b] = settlement]
    /\ UNCHANGED clicks
    /\ UNCHANGED <<appVars, hookVars>>

NextTrigger ==
    \/ \E b \in Buttons : handleClick(b)
    \/ \E b \in Buttons : \E settlement \in Settlements : Settle(b, settlement)

SpecTrigger == Init /\ [][NextTrigger]_vars

\* C30: a TriggerButton has at most one call of onTrigger in flight, and
\* isTriggering is true exactly while that call has not settled, whether the
\* call resolved or threw.
C30_OneTriggerInFlight ==
    \A b \in Buttons :
        /\ inFlight[b] <= 1
        /\ isTriggering[b] <=> (inFlight[b] = 1)

\* a call is in flight after the previous call of the same button threw,
\* while the other button is idle after a call that resolved
C30_Witness ==
    \E b \in Buttons : \E c \in Buttons \ {b} :
        /\ clicks[b] >= 2
        /\ lastSettled[b] = "rejected"
        /\ inFlight[b] = 1
        /\ lastSettled[c] = "resolved"
        /\ ~isTriggering[c]

====
